---- MODULE Spec2Model ----
(***************************************************************************)
(* A model of the asynchronous discovery-and-ranking pipeline of the       *)
(* talent-engineer API: run_search (api/app/orchestrator.py), the JobEvents *)
(* per-job queues, the scoring functions (api/app/ranking.py, utils.py,     *)
(* embeddings.py) and the HTTP handlers post_search, get_search and         *)
(* sse_events (api/app/main.py).                                            *)
(*                                                                          *)
(* Numbers the code holds as floats are fixed-point integers here, with     *)
(* U = 1.0.  Texts are sequences of whitespace-separated tokens.            *)
(***************************************************************************)
EXTENDS Integers, Sequences, FiniteSets, TLC

\* ------------------------------------------------------------------ bounds
\* the number of authors OpenAlex knows
NumAuthors == 2

\* --------------------------------------------------------------- arithmetic
U == 10^6

Min(a, b) == IF a <= b THEN a ELSE b
Max(a, b) == IF a >= b THEN a ELSE b
Abs(a) == IF a < 0 THEN 0 - a ELSE a

RECURSIVE SumOver(_, _)
SumOver(f, S) ==
    IF S = {} THEN 0
    ELSE LET i == CHOOSE x \in S : TRUE IN f[i] + SumOver(f, S \ {i})

RECURSIVE IsqrtIn(_, _, _)
IsqrtIn(n, lo, hi) ==
    IF lo >= hi THEN lo
    ELSE LET mid == (lo + hi + 1) \div 2
         IN IF mid * mid <= n THEN IsqrtIn(n, mid, hi) ELSE IsqrtIn(n, lo, mid - 1)

\* floor(sqrt(n)) for 0 <= n < 2^30
Isqrt(n) == IsqrtIn(n, 0, 32767)

\* floor(n ** 0.4) = the largest r with r^5 <= n^2, for 0 <= n <= 32768
Pow04(n) == CHOOSE r \in 0..64 : r^5 <= n * n /\ (r = 64 \/ (r + 1)^5 > n * n)

SeqToSet(s) == {s[i] : i \in 1..Len(s)}

\* ------------------------------------------------------------------- tokens
\* str.lower() on the model's vocabulary
Lower(t) == IF t = "Quantum" THEN "quantum" ELSE t

\* int(md5(tok).hexdigest(), 16) % 2560 of the lowercased token; 2560 is a
\* multiple of every embedding dimension of the model and of 4, so that
\* h % dim and (h >> 1) & 1 are those of the full digest.
Md5Mod(t) ==
    CASE t = "quantum" -> 1047
      [] t = "computing" -> 130
      [] t = "error" -> 642
      [] t = "planning" -> 837
      [] t = "the" -> 1879
      [] t = "ai" -> 1801
      [] OTHER -> 200

STOPWORDS == {"the"}

TokLen(t) == CASE t = "ai" -> 2 [] t = "the" -> 3 [] OTHER -> 5

\* ------------------------------------------------------- utils.top_keywords
KeepToken(tok) == tok \notin STOPWORDS /\ TokLen(tok) >= 3

RECURSIVE CountIn(_, _)
CountIn(toks, t) ==
    IF toks = <<>> THEN 0
    ELSE (IF Head(toks) = t THEN 1 ELSE 0) + CountIn(Tail(toks), t)

RECURSIVE FirstSeen(_, _)
\* the kept tokens in order of first occurrence (the Counter's insertion order)
FirstSeen(toks, seen) ==
    IF toks = <<>> THEN <<>>
    ELSE IF KeepToken(Head(toks)) /\ Head(toks) \notin seen
         THEN <<Head(toks)>> \o FirstSeen(Tail(toks), seen \cup {Head(toks)})
         ELSE FirstSeen(Tail(toks), seen)

RECURSIVE MostCommon(_, _, _)
\* Counter.most_common(k): by count descending, ties in insertion order
MostCommon(order, toks, k) ==
    IF k = 0 \/ order = <<>> THEN <<>>
    ELSE LET best == CHOOSE i \in 1..Len(order) :
                        /\ \A j \in 1..Len(order) :
                              CountIn(toks, order[j]) <= CountIn(toks, order[i])
                        /\ \A j \in 1..(i - 1) :
                              CountIn(toks, order[j]) < CountIn(toks, order[i])
             rest == [j \in 1..(Len(order) - 1) |->
                        IF j < best THEN order[j] ELSE order[j + 1]]
         IN <<order[best]>> \o MostCommon(rest, toks, k - 1)

top_keywords(text, k) ==
    LET toks == [i \in 1..Len(text) |-> Lower(text[i])]
    IN MostCommon(FirstSeen(toks, {}), toks, k)

\* ------------------------------------------------- embeddings.SimpleEmbedder
tokenize(text) == [i \in 1..Len(text) |-> Lower(text[i])]

TokIndex(tok, dim) == Md5Mod(tok) % dim
TokSign(tok) == IF (Md5Mod(tok) \div 2) % 2 = 1 THEN 0 - 1 ELSE 1

\* A vector of dimension dim is held by its non-zero entries: num maps the
\* indices that tokens hit to their signed counts, every other entry is 0.
Dot(a, b) ==
    LET both == {i \in DOMAIN a \cap DOMAIN b : a[i] # 0 /\ b[i] # 0}
        prod == [i \in both |-> a[i] * b[i]]
    IN SumOver(prod, both)

\* an embedding that keeps the signed counts as they are
embed_unnormalised(text, dim) ==
    LET toks == tokenize(text)
        touched == {TokIndex(toks[k], dim) : k \in 1..Len(toks)}
        acc == [i \in touched |->
                  LET hit == {k \in 1..Len(toks) : TokIndex(toks[k], dim) = i}
                  IN SumOver([k \in hit |-> TokSign(toks[k])], hit)]
    IN [dim |-> dim, num |-> acc, den2 |-> 1]

\* The signed counts, and the square of the norm they were divided by: the
\* vector of the code is num / sqrt(den2); an all-zero accumulator is kept.
embed(text, dim) ==
    LET toks == tokenize(text)
        touched == {TokIndex(toks[k], dim) : k \in 1..Len(toks)}
        acc == [i \in touched |->
                  LET hit == {k \in 1..Len(toks) : TokIndex(toks[k], dim) = i}
                  IN SumOver([k \in hit |-> TokSign(toks[k])], hit)]
        n2 == Dot(acc, acc)
    IN [dim |-> dim, num |-> acc, den2 |-> IF n2 > 0 THEN n2 ELSE 1]

Sign(x) == IF x < 0 THEN 0 - 1 ELSE IF x > 0 THEN 1 ELSE 0

\* cosine_similarity of two vectors of one shape, in units of 1/U (to 1/1000)
cosine_similarity(a, b) ==
    LET dot == Dot(a.num, b.num)
        na2 == Dot(a.num, a.num)
        nb2 == Dot(b.num, b.num)
    IN IF na2 = 0 \/ nb2 = 0 THEN 0
       ELSE Sign(dot) * Isqrt((dot * dot * 10^6) \div (na2 * nb2)) * (U \div 1000)

\* if a.shape != b.shape / if len(a) != len(b): raise ValueError("shape mismatch")
ShapeMismatch(a, b) == a.dim # b.dim

\* What a call of cosine_similarity gives: the exception it raises ("" for
\* none) or the value it returns.
cosine_outcome(a, b) ==
    IF ShapeMismatch(a, b)
    THEN [raised |-> "ValueError: shape mismatch", value |-> 0]
    ELSE [raised |-> "", value |-> cosine_similarity(a, b)]

\* -------------------------------------------------------------- ranking.py
\* a linear map of value with no clamp to [lo, hi]
normalized_score_unclamped(value, lo, hi) ==
    IF hi <= lo THEN 0
    ELSE ((value - lo) * U) \div (hi - lo)

normalized_score(value, lo, hi) ==
    IF hi <= lo THEN 0
    ELSE ((Max(lo, Min(hi, value)) - lo) * U) \div (hi - lo)

\* a fit that divides by the length of the list of query keywords
topical_fit_by_length(keywords_query, topics_candidate) ==
    IF keywords_query = <<>> \/ topics_candidate = <<>> THEN 0
    ELSE LET s_q == {Lower(k) : k \in SeqToSet(keywords_query)}
             s_c == {Lower(t) : t \in SeqToSet(topics_candidate)}
             inter == Cardinality(s_q \cap s_c)
         IN (inter * U) \div Max(1, Len(keywords_query))

topical_fit(keywords_query, topics_candidate) ==
    IF keywords_query = <<>> \/ topics_candidate = <<>> THEN 0
    ELSE LET s_q == {Lower(k) : k \in SeqToSet(keywords_query)}
             s_c == {Lower(t) : t \in SeqToSet(topics_candidate)}
             inter == Cardinality(s_q \cap s_c)
         IN (inter * U) \div Max(1, Cardinality(s_q))

\* a score whose weights of fit and impact are exchanged
score_candidate_swapped(query_keywords, topics, h_approx, best_citations, recent_year, current_year, embed_similarity, seniority_fit) ==
    LET fit_keywords == topical_fit(query_keywords, topics)
        fit_embed == embed_similarity
        fit == (5 * fit_keywords + 5 * fit_embed) \div 10
        impact == (normalized_score(best_citations, 0, 500) * 7
                   + normalized_score(h_approx, 0, 80) * 3) \div 10
        recency == IF recent_year # 0
                   THEN normalized_score(recent_year, current_year - 15, current_year)
                   ELSE 0
        total == (30 * fit + 45 * impact + 15 * recency + 10 * seniority_fit) \div 100
    IN [total |-> total,
        breakdown |-> [fit_keywords |-> fit_keywords, fit_embed |-> fit_embed,
                       topical_fit |-> fit, impact |-> impact, recency |-> recency,
                       seniority_fit |-> seniority_fit]]

\* recent_year = 0 stands for None (both are falsy in the code)
score_candidate(query_keywords, topics, h_approx, best_citations, recent_year, current_year, embed_similarity, seniority_fit) ==
    LET fit_keywords == topical_fit(query_keywords, topics)
        fit_embed == embed_similarity
        fit == (5 * fit_keywords + 5 * fit_embed) \div 10
        impact == (normalized_score(best_citations, 0, 500) * 7
                   + normalized_score(h_approx, 0, 80) * 3) \div 10
        recency == IF recent_year # 0
                   THEN normalized_score(recent_year, current_year - 15, current_year)
                   ELSE 0
        total == (45 * fit + 30 * impact + 15 * recency + 10 * seniority_fit) \div 100
    IN [total |-> total,
        breakdown |-> [fit_keywords |-> fit_keywords, fit_embed |-> fit_embed,
                       topical_fit |-> fit, impact |-> impact, recency |-> recency,
                       seniority_fit |-> seniority_fit]]

\* a classification whose tiers ask for all three thresholds at once
estimate_seniority_all(years_active, h_approx, works_count) ==
    IF years_active >= 10 /\ h_approx >= 25 /\ works_count >= 80 THEN "principal"
    ELSE IF years_active >= 6 /\ h_approx >= 12 /\ works_count >= 40 THEN "senior"
    ELSE IF years_active >= 3 /\ h_approx >= 6 /\ works_count >= 15 THEN "mid"
    ELSE "junior"

\* years_active = 0 stands for None (ya = years_active or 0)
estimate_seniority(years_active, h_approx, works_count) ==
    IF years_active >= 10 \/ h_approx >= 25 \/ works_count >= 80 THEN "principal"
    ELSE IF years_active >= 6 \/ h_approx >= 12 \/ works_count >= 40 THEN "senior"
    ELSE IF years_active >= 3 \/ h_approx >= 6 \/ works_count >= 15 THEN "mid"
    ELSE "junior"

LevelOrder == <<"junior", "mid", "senior", "principal">>
LevelIndex(l) == CHOOSE i \in 1..4 : LevelOrder[i] = l

\* a fit that is full whenever the candidate is at or above the desired level
seniority_fit_directed(candidate_level, desired_level) ==
    IF desired_level = "" THEN U
    ELSE IF candidate_level \notin SeqToSet(LevelOrder)
            \/ desired_level \notin SeqToSet(LevelOrder) THEN (8 * U) \div 10
    ELSE LET diff == Max(0, LevelIndex(desired_level) - LevelIndex(candidate_level))
         IN <<U, (8 * U) \div 10, (5 * U) \div 10, (2 * U) \div 10>>[Min(diff, 3) + 1]

\* desired_level = "" stands for None / unset (both are falsy in the code)
seniority_fit_score(candidate_level, desired_level) ==
    IF desired_level = "" THEN U
    ELSE IF candidate_level \notin SeqToSet(LevelOrder)
            \/ desired_level \notin SeqToSet(LevelOrder) THEN (8 * U) \div 10
    ELSE LET diff == Abs(LevelIndex(candidate_level) - LevelIndex(desired_level))
         IN <<U, (8 * U) \div 10, (5 * U) \div 10, (2 * U) \div 10>>[Min(diff, 3) + 1]

\* ------------------------------------------------- collaborators (OpenAlex)
\* The authors search_authors can return, as OpenAlexAuthor records, in the
\* order of its sort (cited_by_count descending).
AuthorIds == 1..NumAuthors

Author(a) ==
    CASE a = 1 -> [id |-> 1, works_count |-> 100, cited_by_count |-> 3125]
      [] a = 2 -> [id |-> 2, works_count |-> 16, cited_by_count |-> 32]
      [] OTHER -> [id |-> a, works_count |-> 0, cited_by_count |-> 0]

\* What fetch_top_works returns for each author.  has_year = FALSE stands for
\* year None, org = "" for org_at_publication None.
Work(title, has_year, year, citations, org) ==
    [title |-> title, abstract |-> <<>>, has_year |-> has_year, year |-> year,
     citations |-> citations, org_at_publication |-> org]

Works(a) ==
    CASE a = 1 -> << Work(<<"Quantum", "computing">>, TRUE, 2020, 600, "MIT"),
                     Work(<<"quantum", "error", "the", "ai">>, TRUE, 2020, 50, "MIT"),
                     Work(<<"computing">>, FALSE, 0, 5, "MIT") >>
      [] a = 2 -> << Work(<<"planning">>, TRUE, 2005, 10, "CMU"),
                     Work(<<"planning">>, TRUE, 2006, 0, "") >>
      [] OTHER -> << >>

\* search_authors(query, limit=10): at most 10 authors, in the order of the sort
DiscoveryLimit == 10

DiscoveryResults ==
    {s \in UNION {[1..n -> AuthorIds] : n \in 0..Min(NumAuthors, DiscoveryLimit)} :
        \A i \in 1..(Len(s) - 1) : s[i] < s[i + 1]}

\* str(e) of the exceptions the collaborators raise (an httpx timeout
\* stringifies to "") and of those the store raises.
HttpErrors == {"", "503 Service Unavailable"}
StoreErrors == {"database is locked"}

\* ------------------------------------------------------------ HTTP requests
\* SearchRequest payloads: query, job_description ("" tokens for None) and
\* filters.get("seniority") ("" for unset).
PlainPayload == [query |-> <<"quantum">>, job_description |-> <<>>, seniority |-> ""]

Payloads ==
    { PlainPayload,
      [query |-> <<"quantum">>, job_description |-> <<"Quantum", "computing", "the">>,
       seniority |-> "principal"] }

\* settings.embed_dim = int(os.getenv("EMBED_DIM", "512"))
EmbedDims == {10, 512}

now_year == 2026

\* ---------------------------------------------------------------- the state
JobIds == {1, 2}
Subscribers == {1, 2}
NoJob == [status |-> "absent"]
NoCall == [fn |-> "", args |-> <<>>]

VARIABLES
    embed_dim,          \* settings.embed_dim
    job,                \* table job: JobIds -> row or NoJob
    candidate,          \* table candidate (set of rows)
    publication,        \* table publication
    affiliationyear,    \* table affiliationyear
    analysis_summary,   \* table of AnalysisSummary rows
    queues,             \* JobEvents._queues: a dict from job id to its queue
    pc,                 \* position of the task running run_search(j)
    authors,            \* run_search local: authors
    step,               \* run_search local: step
    exc,                \* run_search local: the exception caught
    running,            \* the task that holds the event loop (0: none)
    fault,              \* history: the failures raised in run_search(j)
    published,          \* history: the events emitted for each job, in order
    sub,                \* per event stream: the job whose queue it reads (0: not open)
    idle,               \* per event stream: the time its wait_for has been waiting
    frames,             \* history: the frames the event streams have yielded
    call,               \* the function last called on its own, with its arguments
    ret                 \* what that call returned

pipeVars == <<embed_dim, job, candidate, publication, affiliationyear,
              analysis_summary, queues, pc, authors, step, exc, running, fault,
              published>>
streamVars == <<sub, idle, frames>>
fnVars == <<call, ret>>
vars == <<pipeVars, streamVars, fnVars>>

PENDING == "pending"
RUNNING == "running"
DONE == "done"
ERROR == "error"

\* ------------------------------------------------------------- JobEvents
Event(type, progress, cand, message) ==
    [type |-> type, progress |-> progress, candidate |-> cand, message |-> message]

\* get_queue: the queue of job_id, created when absent
get_queue(qs, job_id) ==
    IF job_id \in DOMAIN qs THEN qs ELSE qs @@ (job_id :> <<>>)

\* emit: q.put(json.dumps(event)) on the unbounded queue of job_id
emit(qs, job_id, event) ==
    LET q == get_queue(qs, job_id) IN [q EXCEPT ![job_id] = Append(@, event)]

\* an emit on one queue shared by all the jobs
EmitEventShared(j, event) ==
    /\ queues' = emit(queues, 1, event)
    /\ published' = [published EXCEPT ![j] = Append(@, event)]

\* events.emit(job_id, event) in run_search, with the record of what was emitted
EmitEvent(j, event) ==
    /\ queues' = emit(queues, j, event)
    /\ published' = [published EXCEPT ![j] = Append(@, event)]

\* ------------------------------------------- run_search: the enrichment
RECURSIVE ConcatFrom(_, _)
ConcatFrom(seqs, k) == IF k > Len(seqs) THEN <<>> ELSE seqs[k] \o ConcatFrom(seqs, k + 1)

\* the tokens of a list of texts, in order
Concat(seqs) == ConcatFrom(seqs, 1)

RECURSIVE MaxOf(_)
MaxOf(S) == IF S = {} THEN 0 ELSE LET x == CHOOSE y \in S : TRUE IN Max(x, MaxOf(S \ {x}))

RECURSIVE MinOf(_, _)
MinOf(S, d) == IF S = {} THEN d ELSE LET x == CHOOSE y \in S : TRUE IN Min(x, MinOf(S \ {x}, d))

\* job_text or query
JobText(j) == IF j.job_description # <<>> THEN j.job_description ELSE j.query

\* The locals of one pass of the loop of run_search, for job row j and the
\* author a, with embedding dimension dim.
Enrich(j, a, dim) ==
    LET author == Author(a)
        works == Works(a)
        texts == [k \in 1..Len(works) |-> works[k].title \o works[k].abstract]
        topics == top_keywords(Concat(texts), 8)
        best_citations == MaxOf({works[k].citations : k \in 1..Len(works)} \cup {0})
        recent_year == MaxOf({IF works[k].has_year THEN works[k].year ELSE 0 :
                                 k \in 1..Len(works)} \cup {0})
        h_approx == Min(Isqrt(author.works_count), Pow04(author.cited_by_count))
        job_keywords == top_keywords(JobText(j), 12)
        job_vec == embed(JobText(j), dim)
        cand_vec == embed(Concat(texts), dim)
        embed_fit == cosine_similarity(cand_vec, job_vec)
        first_year == MinOf({IF works[k].has_year THEN works[k].year ELSE now_year :
                                k \in 1..Len(works)}, now_year)
        years_active == Max(1, now_year - first_year + 1)
        seniority_level == estimate_seniority(years_active, h_approx, author.works_count)
        seniority_fit == seniority_fit_score(seniority_level, j.seniority)
        sc == score_candidate(IF job_keywords # <<>> THEN job_keywords ELSE j.query,
                              topics, h_approx, best_citations, recent_year, now_year,
                              embed_fit, seniority_fit)
    IN [works |-> works, topics |-> topics, score |-> sc.total,
        breakdown |-> sc.breakdown, seniority |-> seniority_level]

\* Enrich over the requests, authors and dimensions of the model, computed
\* once and held as an explicit table (which is what @@ makes of it)
EnrichTable ==
    [x \in Payloads \X AuthorIds \X EmbedDims |-> Enrich(x[1], x[2], x[3])] @@ <<>>

\* the locals of the pass for the job row j and the author a
Enriched(j, a, dim) ==
    EnrichTable[<<[query |-> j.query, job_description |-> j.job_description,
                   seniority |-> j.seniority], a, dim>>]

\* a progress that counts the authors left instead of the authors done
ProgressCountdown(st, total) == 5 + ((total - st) * 90) \div Max(1, total)

\* a progress that rounds to the nearest integer (halves upwards)
ProgressRounded(st, total) ==
    (2 * (5 * Max(1, total) + 90 * st) + Max(1, total)) \div (2 * Max(1, total))

\* progress = int(5 + (step / max(1, total)) * 90)
Progress(st, total) == 5 + (st * 90) \div Max(1, total)

\* The rows a textual SELECT run through the session sees: those of the table.
\* A text() statement does not flush the session, so the rows handed to
\* s.add() and not yet committed are not among them.
SqlVisible(table, pending) == table

RECURSIVE UpsertAffiliations(_, _, _, _, _)
\* The loop over works of the second transaction, from work k on: the
\* affiliationyear rows after it (rows updated in place, then rows added).
UpsertAffiliations(k, works, cid, table, pending) ==
    IF k > Len(works) THEN table \cup pending
    ELSE LET w == works[k]
             existing == {r \in SqlVisible(table, pending) :
                             /\ r.candidate_id = cid
                             /\ r.year = w.year
                             /\ r.org_name = w.org_at_publication}
         IN IF w.org_at_publication # "" /\ w.has_year
            THEN IF existing # {}
                 THEN LET r == CHOOSE x \in existing : TRUE
                      IN UpsertAffiliations(k + 1, works, cid,
                            (table \ {r}) \cup {[r EXCEPT !.evidence_count = @ + 1]},
                            pending)
                 ELSE UpsertAffiliations(k + 1, works, cid, table,
                            pending \cup {[id |-> <<cid, k>>, candidate_id |-> cid,
                                           org_name |-> w.org_at_publication,
                                           year |-> w.year, evidence_count |-> 1]})
            ELSE UpsertAffiliations(k + 1, works, cid, table, pending)

\* ---------------------------------------------------------------- actions
TypeOK ==
    /\ embed_dim \in EmbedDims
    /\ running \in JobIds \cup {0}
    /\ \A j \in JobIds : step[j] \in 0..NumAuthors

InitRest ==
    /\ job = [j \in JobIds |-> NoJob]
    /\ candidate = {}
    /\ publication = {}
    /\ affiliationyear = {}
    /\ analysis_summary = {}
    /\ queues = <<>>
    /\ pc = [j \in JobIds |-> "none"]
    /\ authors = [j \in JobIds |-> <<>>]
    /\ step = [j \in JobIds |-> 0]
    /\ exc = [j \in JobIds |-> ""]
    /\ running = 0
    /\ fault = [j \in JobIds |-> <<>>]
    /\ published = [j \in JobIds |-> <<>>]
    /\ sub = [s \in Subscribers |-> 0]
    /\ idle = [s \in Subscribers |-> 0]
    /\ frames = <<>>
    /\ call = NoCall
    /\ ret = 0

Exists(j) == job[j] # NoJob

\* The exception e is raised inside the try of run_search(j), at `where`.
Raise(j, e, where) ==
    /\ exc' = [exc EXCEPT ![j] = e]
    /\ pc' = [pc EXCEPT ![j] = "handler"]
    /\ running' = j
    /\ fault' = [fault EXCEPT ![j] = Append(@, where)]

\* POST /search: the Job row is committed and the task created.
post_search(ids, payloads) ==
    /\ running = 0
    /\ \E j \in ids, p \in payloads :
        /\ ~Exists(j)
        /\ \A i \in 1..(j - 1) : Exists(i)
        /\ job' = [job EXCEPT ![j] =
                     [status |-> PENDING, progress |-> 0, error |-> <<>>,
                      query |-> p.query, job_description |-> p.job_description,
                      seniority |-> p.seniority]]
        /\ pc' = [pc EXCEPT ![j] = "start"]
    /\ UNCHANGED <<streamVars, fnVars>>
    /\ UNCHANGED <<embed_dim, candidate, publication, affiliationyear,
                   analysis_summary, queues, published, authors, step, exc, running, fault>>

\* run_search, lines 40-48: the job is set RUNNING (outside the try).
RunStart(j) ==
    /\ running = 0
    /\ pc[j] = "start"
    /\ \/ /\ job' = [job EXCEPT ![j].status = RUNNING, ![j].progress = 1]
          /\ pc' = [pc EXCEPT ![j] = "emit_start"]
          /\ running' = j
          /\ UNCHANGED fault
       \/ \* the commit raises: the exception leaves the task
          /\ pc' = [pc EXCEPT ![j] = "dead"]
          /\ fault' = [fault EXCEPT ![j] = Append(@, "start")]
          /\ UNCHANGED <<job, running>>
    /\ UNCHANGED <<streamVars, fnVars>>
    /\ UNCHANGED <<embed_dim, candidate, publication, affiliationyear,
                   analysis_summary, queues, published, authors, step, exc>>

\* a start that goes on to discovery without the initial progress event
EmitStartSilent(j) ==
    /\ running = j
    /\ pc[j] = "emit_start"
    /\ pc' = [pc EXCEPT ![j] = "discover"]
    /\ running' = 0
    /\ UNCHANGED <<streamVars, fnVars>>
    /\ UNCHANGED <<embed_dim, job, candidate, publication, affiliationyear,
                   analysis_summary, queues, published, authors, step, exc, fault>>

\* line 50, then lines 52-67 up to the call of search_authors
EmitStart(j) ==
    /\ running = j
    /\ pc[j] = "emit_start"
    /\ EmitEvent(j, Event("progress", 1, <<>>, ""))
    /\ pc' = [pc EXCEPT ![j] = "discover"]
    /\ running' = 0
    /\ UNCHANGED <<streamVars, fnVars>>
    /\ UNCHANGED <<embed_dim, job, candidate, publication, affiliationyear,
                   analysis_summary, authors, step, exc, fault>>

\* search_authors returns or raises (line 67); lines 68 and 80-92 follow.
DiscoverReturn(j) ==
    /\ running = 0
    /\ pc[j] = "discover"
    /\ \/ \E e \in HttpErrors :
            /\ Raise(j, e, "discovery")
            /\ UNCHANGED <<authors, step>>
       \/ /\ authors' = [authors EXCEPT ![j] = <<>>]
          /\ pc' = [pc EXCEPT ![j] = "finish"]
          /\ running' = j
          /\ UNCHANGED <<step, exc, fault>>
       \/ \E res \in DiscoveryResults :
            /\ res # <<>>
            /\ authors' = [authors EXCEPT ![j] = res]
            /\ step' = [step EXCEPT ![j] = 0]
            /\ pc' = [pc EXCEPT ![j] = "fetch"]
            /\ UNCHANGED <<running, exc, fault>>
    /\ UNCHANGED <<streamVars, fnVars>>
    /\ UNCHANGED <<embed_dim, job, candidate, publication, affiliationyear,
                   analysis_summary, queues, published>>

\* fetch_top_works returns or raises (line 92); lines 93-120 (topics, score)
\* change no state and raise as the fetch does.
FetchReturn(j) ==
    /\ running = 0
    /\ pc[j] = "fetch"
    /\ \/ \E e \in HttpErrors : Raise(j, e, "enrich")
       \/ /\ pc' = [pc EXCEPT ![j] = "persist_candidate"]
          /\ running' = j
          /\ UNCHANGED <<exc, fault>>
    /\ UNCHANGED <<streamVars, fnVars>>
    /\ UNCHANGED <<embed_dim, job, candidate, publication, affiliationyear,
                   analysis_summary, queues, published, authors, step>>

\* the Candidate row of the author in hand: a fresh id per job and pass
CandId(j) == <<j, step[j] + 1>>
CurAuthor(j) == authors[j][step[j] + 1]

\* lines 123-131: the Candidate row is added and committed on its own
PersistCandidate(j) ==
    /\ running = j
    /\ pc[j] = "persist_candidate"
    /\ \/ /\ candidate' = candidate \cup
                {[id |-> CandId(j), openalex_id |-> CurAuthor(j)]}
          /\ pc' = [pc EXCEPT ![j] = "persist_rest"]
          /\ UNCHANGED <<exc, running, fault>>
       \/ \E e \in StoreErrors :
            /\ Raise(j, e, "persist_candidate")
            /\ UNCHANGED candidate
    /\ UNCHANGED <<streamVars, fnVars>>
    /\ UNCHANGED <<embed_dim, job, publication, affiliationyear,
                   analysis_summary, queues, published, authors, step>>

\* lines 133-176: Publications, AffiliationYear rows and the AnalysisSummary,
\* committed together; a failure rolls all of them back.
PersistRest(j) ==
    /\ running = j
    /\ pc[j] = "persist_rest"
    /\ \/ LET en == Enriched(job[j], CurAuthor(j), embed_dim)
              cid == CandId(j)
          IN /\ publication' = publication \cup
                    {[id |-> <<cid, k>>, candidate_id |-> cid,
                      year |-> en.works[k].year, citations |-> en.works[k].citations] :
                        k \in 1..Len(en.works)}
             /\ affiliationyear' =
                    UpsertAffiliations(1, en.works, cid, affiliationyear, {})
             /\ analysis_summary' = analysis_summary \cup
                    {[id |-> cid, candidate_id |-> cid, topics |-> en.topics,
                      breakdown |-> en.breakdown, seniority |-> en.seniority,
                      total_score |-> en.score]}
             /\ pc' = [pc EXCEPT ![j] = "emit_candidate"]
             /\ UNCHANGED <<exc, running, fault>>
       \/ \E e \in StoreErrors :
            /\ Raise(j, e, "persist_rest")
            /\ UNCHANGED <<publication, affiliationyear, analysis_summary>>
    /\ UNCHANGED <<streamVars, fnVars>>
    /\ UNCHANGED <<embed_dim, job, candidate, queues, published, authors, step>>

\* a loop that starts the next author's fetch as soon as the candidate event
\* is out, without the progress update of the author just done
EmitCandidateThenFetch(j) ==
    /\ running = j
    /\ pc[j] = "emit_candidate"
    /\ EmitEvent(j, Event("candidate", 0, CandId(j), ""))
    /\ step' = [step EXCEPT ![j] = @ + 1]
    /\ IF step[j] + 1 < Len(authors[j])
       THEN /\ pc' = [pc EXCEPT ![j] = "fetch"]
            /\ running' = 0
       ELSE /\ pc' = [pc EXCEPT ![j] = "finish"]
            /\ UNCHANGED running
    /\ UNCHANGED <<streamVars, fnVars>>
    /\ UNCHANGED <<embed_dim, job, candidate, publication, affiliationyear,
                   analysis_summary, authors, exc, fault>>

\* lines 179-192
EmitCandidate(j) ==
    /\ running = j
    /\ pc[j] = "emit_candidate"
    /\ EmitEvent(j, Event("candidate", 0, CandId(j), ""))
    /\ pc' = [pc EXCEPT ![j] = "progress"]
    /\ UNCHANGED <<streamVars, fnVars>>
    /\ UNCHANGED <<embed_dim, job, candidate, publication, affiliationyear,
                   analysis_summary, authors, step, exc, running, fault>>

\* a progress update that counts the step and skips the commit
UpdateProgressUnsaved(j) ==
    /\ running = j
    /\ pc[j] = "progress"
    /\ step' = [step EXCEPT ![j] = @ + 1]
    /\ pc' = [pc EXCEPT ![j] = "emit_progress"]
    /\ UNCHANGED <<streamVars, fnVars>>
    /\ UNCHANGED <<embed_dim, job, candidate, publication, affiliationyear,
                   analysis_summary, queues, published, authors, exc, running,
                   fault>>

\* lines 194-202
UpdateProgress(j) ==
    /\ running = j
    /\ pc[j] = "progress"
    /\ step' = [step EXCEPT ![j] = @ + 1]
    /\ \/ /\ job' = [job EXCEPT ![j].progress = Progress(step[j] + 1, Len(authors[j]))]
          /\ pc' = [pc EXCEPT ![j] = "emit_progress"]
          /\ UNCHANGED <<exc, running, fault>>
       \/ \E e \in StoreErrors :
            /\ Raise(j, e, "progress")
            /\ UNCHANGED job
    /\ UNCHANGED <<streamVars, fnVars>>
    /\ UNCHANGED <<embed_dim, candidate, publication, affiliationyear,
                   analysis_summary, queues, published, authors>>

\* line 203, then the next pass of the loop up to fetch_top_works, or the end
EmitProgress(j) ==
    /\ running = j
    /\ pc[j] = "emit_progress"
    /\ EmitEvent(j,
                      Event("progress", Progress(step[j], Len(authors[j])), <<>>, ""))
    /\ IF step[j] < Len(authors[j])
       THEN /\ pc' = [pc EXCEPT ![j] = "fetch"]
            /\ running' = 0
       ELSE /\ pc' = [pc EXCEPT ![j] = "finish"]
            /\ UNCHANGED running
    /\ UNCHANGED <<streamVars, fnVars>>
    /\ UNCHANGED <<embed_dim, job, candidate, publication, affiliationyear,
                   analysis_summary, authors, step, exc, fault>>

\* a finish that sets the status and leaves the progress where it was
FinishKeepsProgress(j) ==
    /\ running = j
    /\ pc[j] = "finish"
    /\ job' = [job EXCEPT ![j].status = DONE]
    /\ pc' = [pc EXCEPT ![j] = "emit_finished"]
    /\ UNCHANGED <<streamVars, fnVars>>
    /\ UNCHANGED <<embed_dim, candidate, publication, affiliationyear,
                   analysis_summary, queues, published, authors, step, exc,
                   running, fault>>

\* lines 69-76 and lines 205-212: the job is set DONE with progress 100
Finish(j) ==
    /\ running = j
    /\ pc[j] = "finish"
    /\ \/ /\ job' = [job EXCEPT ![j].status = DONE, ![j].progress = 100]
          /\ pc' = [pc EXCEPT ![j] = "emit_finished"]
          /\ UNCHANGED <<exc, running, fault>>
       \/ \E e \in StoreErrors :
            /\ Raise(j, e, "finish")
            /\ UNCHANGED job
    /\ UNCHANGED <<streamVars, fnVars>>
    /\ UNCHANGED <<embed_dim, candidate, publication, affiliationyear,
                   analysis_summary, queues, published, authors, step>>

\* a final emit that raises inside the try, after the DONE commit
EmitFinishedRaises(j) ==
    /\ running = j
    /\ pc[j] = "emit_finished"
    /\ Raise(j, "queue closed", "emit_finished")
    /\ UNCHANGED <<streamVars, fnVars>>
    /\ UNCHANGED <<embed_dim, job, candidate, publication, affiliationyear,
                   analysis_summary, queues, published, authors, step>>

\* lines 77-78 and line 213
EmitFinished(j) ==
    /\ running = j
    /\ pc[j] = "emit_finished"
    /\ EmitEvent(j, Event("finished", 0, <<>>, ""))
    /\ pc' = [pc EXCEPT ![j] = "done"]
    /\ running' = 0
    /\ UNCHANGED <<streamVars, fnVars>>
    /\ UNCHANGED <<embed_dim, job, candidate, publication, affiliationyear,
                   analysis_summary, authors, step, exc, fault>>

\* an except clause that also closes the progress at 100
HandlerCompletesProgress(j) ==
    /\ running = j
    /\ pc[j] = "handler"
    /\ job' = [job EXCEPT ![j].status = ERROR, ![j].error = <<exc[j]>>,
                          ![j].progress = 100]
    /\ pc' = [pc EXCEPT ![j] = "emit_error"]
    /\ UNCHANGED <<streamVars, fnVars>>
    /\ UNCHANGED <<embed_dim, candidate, publication, affiliationyear,
                   analysis_summary, queues, published, authors, step, exc,
                   running, fault>>

\* an except clause that stores a fixed message in place of str(e)
HandlerGenericMessage(j) ==
    /\ running = j
    /\ pc[j] = "handler"
    /\ job' = [job EXCEPT ![j].status = ERROR, ![j].error = <<"search failed">>]
    /\ pc' = [pc EXCEPT ![j] = "emit_error"]
    /\ UNCHANGED <<streamVars, fnVars>>
    /\ UNCHANGED <<embed_dim, candidate, publication, affiliationyear,
                   analysis_summary, queues, published, authors, step, exc,
                   running, fault>>

\* lines 214-222: the except clause sets the job to ERROR with str(e)
Handler(j) ==
    /\ running = j
    /\ pc[j] = "handler"
    /\ \/ /\ job' = [job EXCEPT ![j].status = ERROR, ![j].error = <<exc[j]>>]
          /\ pc' = [pc EXCEPT ![j] = "emit_error"]
          /\ UNCHANGED <<running, fault>>
       \/ \* the commit of the handler raises: the exception leaves the task
          /\ pc' = [pc EXCEPT ![j] = "dead"]
          /\ running' = 0
          /\ fault' = [fault EXCEPT ![j] = Append(@, "handler")]
          /\ UNCHANGED job
    /\ UNCHANGED <<streamVars, fnVars>>
    /\ UNCHANGED <<embed_dim, candidate, publication, affiliationyear,
                   analysis_summary, queues, published, authors, step, exc>>

\* line 223
EmitError(j) ==
    /\ running = j
    /\ pc[j] = "emit_error"
    /\ EmitEvent(j, Event("error", 0, <<>>, exc[j]))
    /\ pc' = [pc EXCEPT ![j] = "done"]
    /\ running' = 0
    /\ UNCHANGED <<streamVars, fnVars>>
    /\ UNCHANGED <<embed_dim, job, candidate, publication, affiliationyear,
                   analysis_summary, authors, step, exc, fault>>

run_search(j) ==
    \/ RunStart(j)
    \/ EmitStart(j)
    \/ DiscoverReturn(j)
    \/ FetchReturn(j)
    \/ PersistCandidate(j)
    \/ PersistRest(j)
    \/ EmitCandidate(j)
    \/ UpdateProgress(j)
    \/ EmitProgress(j)
    \/ Finish(j)
    \/ EmitFinished(j)
    \/ Handler(j)
    \/ EmitError(j)

\* Two jobs run concurrently, with the default embedding dimension.
Init ==
    /\ embed_dim = 512
    /\ InitRest

Next ==
    \/ post_search(JobIds, {PlainPayload})
    \/ \E j \in JobIds : run_search(j)

Spec == Init /\ [][Next]_vars

\* One job, with every embedding dimension of the model.
InitScoring ==
    /\ embed_dim \in EmbedDims
    /\ InitRest

NextScoring ==
    \/ post_search({1}, Payloads)
    \/ run_search(1)

SpecScoring == InitScoring /\ [][NextScoring]_vars

\* ------------------------------------------------ GET /events/{search_id}
IdleWindow == 60
TickStep == 20
MaxKeepAlives == 2

Open(s) == sub[s] # 0

\* the frames of one stream: b"event: ping\n\n" and f"data: {data}\n\n"
PingFrame(s) == [sub |-> s, kind |-> "ping", data |-> <<>>]
DataFrame(s, data) == [sub |-> s, kind |-> "message", data |-> <<data>>]

\* the frames stream s has yielded, in order
FramesOf(s) == SelectSeq(frames, LAMBDA f : f.sub = s)
KeepAlivesOf(s) == SelectSeq(FramesOf(s), LAMBDA f : f.kind = "ping")

\* a subscription that is handed every event published so far
SubscribeWithReplay(s, j) ==
    /\ running = 0
    /\ ~Open(s)
    /\ queues' = (j :> published[j]) @@ queues
    /\ sub' = [sub EXCEPT ![s] = j]
    /\ idle' = [idle EXCEPT ![s] = 0]
    /\ frames' = Append(frames, PingFrame(s))
    /\ UNCHANGED fnVars
    /\ UNCHANGED <<embed_dim, job, candidate, publication, affiliationyear,
                   analysis_summary, pc, authors, step, exc, running, fault,
                   published>>

\* event_stream starts: the queue is looked up (created when absent) and the
\* hello frame is yielded; the stream then waits on queue.get() for 60 units.
Subscribe(s, j) ==
    /\ running = 0
    /\ ~Open(s)
    /\ queues' = get_queue(queues, j)
    /\ sub' = [sub EXCEPT ![s] = j]
    /\ idle' = [idle EXCEPT ![s] = 0]
    /\ frames' = Append(frames, PingFrame(s))
    /\ UNCHANGED fnVars
    /\ UNCHANGED <<embed_dim, job, candidate, publication, affiliationyear,
                   analysis_summary, pc, authors, step, exc, running, fault,
                   published>>

\* a get that yields the oldest item and leaves it in the queue
TakeWithoutRemoving(s) ==
    /\ running = 0
    /\ Open(s)
    /\ queues[sub[s]] # <<>>
    /\ Len(FramesOf(s)) <= Len(published[sub[s]])
    /\ frames' = Append(frames, DataFrame(s, Head(queues[sub[s]])))
    /\ idle' = [idle EXCEPT ![s] = 0]
    /\ UNCHANGED fnVars
    /\ UNCHANGED <<pipeVars, sub>>

\* a stream that returns once it has forwarded a "finished" or "error" event
TakeAndClose(s) ==
    /\ running = 0
    /\ Open(s)
    /\ queues[sub[s]] # <<>>
    /\ frames' = Append(frames, DataFrame(s, Head(queues[sub[s]])))
    /\ queues' = [queues EXCEPT ![sub[s]] = Tail(@)]
    /\ idle' = [idle EXCEPT ![s] = 0]
    /\ sub' = IF Head(queues[sub[s]]).type \in {"finished", "error"}
              THEN [sub EXCEPT ![s] = 0]
              ELSE sub
    /\ UNCHANGED fnVars
    /\ UNCHANGED <<embed_dim, job, candidate, publication, affiliationyear,
                   analysis_summary, pc, authors, step, exc, running, fault,
                   published>>

\* queue.get() returns the oldest item, which is yielded as a data frame;
\* the loop then waits again.
Take(s) ==
    /\ running = 0
    /\ Open(s)
    /\ queues[sub[s]] # <<>>
    /\ frames' = Append(frames, DataFrame(s, Head(queues[sub[s]])))
    /\ queues' = [queues EXCEPT ![sub[s]] = Tail(@)]
    /\ idle' = [idle EXCEPT ![s] = 0]
    /\ UNCHANGED fnVars
    /\ UNCHANGED <<embed_dim, job, candidate, publication, affiliationyear,
                   analysis_summary, pc, authors, step, exc, running, fault,
                   published, sub>>

\* wait_for times out: asyncio.TimeoutError is caught, a keep-alive is
\* yielded and the loop waits again.
KeepAlive(s) ==
    /\ running = 0
    /\ Open(s)
    /\ idle[s] = IdleWindow
    /\ Len(KeepAlivesOf(s)) <= MaxKeepAlives
    /\ frames' = Append(frames, PingFrame(s))
    /\ idle' = [idle EXCEPT ![s] = 0]
    /\ UNCHANGED fnVars
    /\ UNCHANGED <<pipeVars, sub>>

\* Time passes for the streams that wait: by at most TickStep, never past a
\* deadline, and not while an item waits for a stream that can take it.
Tick ==
    /\ running = 0
    /\ \E s \in Subscribers : Open(s)
    /\ \A s \in Subscribers :
          Open(s) => idle[s] < IdleWindow /\ queues[sub[s]] = <<>>
    /\ LET d == Min(TickStep,
                    MinOf({IdleWindow - idle[s] : s \in {x \in Subscribers : Open(x)}},
                          IdleWindow))
       IN idle' = [s \in Subscribers |-> IF Open(s) THEN idle[s] + d ELSE idle[s]]
    /\ UNCHANGED fnVars
    /\ UNCHANGED <<pipeVars, sub, frames>>

sse_events(s, j) ==
    \/ Subscribe(s, j)
    \/ Take(s)

\* One job and the event streams that share its queue.
NextStream ==
    \/ post_search({1}, {PlainPayload})
    \/ run_search(1)
    \/ \E s \in Subscribers : sse_events(s, 1)

SpecStream == Init /\ [][NextStream]_vars

\* One job and one event stream, with the clock of its idle window.
NextIdle ==
    \/ post_search({1}, {PlainPayload})
    \/ run_search(1)
    \/ sse_events(1, 1)
    \/ KeepAlive(1)
    \/ Tick

\* The event loop runs what is ready: a task goes on to its next await, the
\* HTTP calls return or time out, and a stream that can yield does.
SpecIdle ==
    /\ Init
    /\ [][NextIdle]_vars
    /\ WF_vars(run_search(1))
    /\ WF_vars(Take(1))
    /\ WF_vars(KeepAlive(1))

\* -------------------------------------------- GET /search/{search_id}
\* analysis_summary JOIN candidate ON candidate.id = analysis_summary.candidate_id
JoinRows ==
    {[candidate_id |-> c.id, openalex_id |-> c.openalex_id, topics |-> a.topics,
      score |-> a.total_score, seniority |-> a.seniority] :
        <<a, c>> \in {x \in analysis_summary \X candidate : x[1].candidate_id = x[2].id}}

RECURSIVE OrderByScoreUnlimited(_, _)
\* the same ordering with no LIMIT
OrderByScoreUnlimited(rows, k) ==
    IF rows = {} THEN {<<>>}
    ELSE LET top == {r \in rows : \A q \in rows : q.score <= r.score}
         IN UNION {{<<r>> \o t : t \in OrderByScoreUnlimited(rows \ {r}, k)} : r \in top}

RECURSIVE OrderByScoreDesc(_, _)
\* ORDER BY total_score DESC LIMIT k: every order SQL may give to equal scores
OrderByScoreDesc(rows, k) ==
    IF k = 0 \/ rows = {} THEN {<<>>}
    ELSE LET top == {r \in rows : \A q \in rows : q.score <= r.score}
         IN UNION {{<<r>> \o t : t \in OrderByScoreDesc(rows \ {r}, k - 1)} : r \in top}

StatusLimit == 20

\* The statement names the table analysis_summary, while the rows of
\* AnalysisSummary are stored under the name SQLModel derives from the class
\* (analysissummary): in a store that has no table analysis_summary the
\* statement raises and the request fails; in a store that has one (here: with
\* the rows of the summaries) it answers.
QueryFailed == [code |-> 500, status |-> "", progress |-> 0, results |-> <<>>]

\* The responses get_search(search_id) can give in the current state.
get_search(search_id) ==
    IF search_id \notin JobIds \/ job[search_id] = NoJob
    THEN {[code |-> 404, status |-> "", progress |-> 0, results |-> <<>>]}
    ELSE IF job[search_id].status \in {RUNNING, DONE}
    THEN {QueryFailed} \cup
         {[code |-> 200, status |-> job[search_id].status,
           progress |-> job[search_id].progress, results |-> r] :
            r \in OrderByScoreDesc(JoinRows, StatusLimit)}
    ELSE {[code |-> 200, status |-> job[search_id].status,
           progress |-> job[search_id].progress, results |-> <<>>]}

\* ------------------------------------------- the functions on their own
\* A call of the function fn with the arguments args, and what it returns.
Called(fn, args, value) ==
    /\ call' = [fn |-> fn, args |-> args]
    /\ ret' = value
    /\ UNCHANGED <<pipeVars, streamVars>>

\* lines 194-195 of run_search: step += 1, then the progress of step out of
\* total, for the totals search_authors(limit=10) can give
CallProgress ==
    \E total \in 1..DiscoveryLimit : \E st \in 1..total :
        Called("progress", <<st, total>>, Progress(st, total))

\* The rows a store may hold for the statement of get_search: n of them, the
\* lowest scores tied in pairs.
MaxRows == 22

RowScore(i) ==
    LET v == (i * 7) % 23 IN (IF v < 4 THEN v \div 2 ELSE v) * 40000

TableOf(n) ==
    {[candidate_id |-> <<1, i>>, openalex_id |-> i, topics |-> <<>>,
      score |-> RowScore(i), seniority |-> "junior"] : i \in 1..n}

\* lines 143-173 of get_search: the statement and the loop over its rows,
\* which keeps their order
CallGetSearch ==
    \E n \in 0..MaxRows : \E r \in OrderByScoreDesc(TableOf(n), StatusLimit) :
        Called("get_search", <<n>>, r)

\* the levels a caller may pass: the four of the order, "" (None) and one
\* that the order does not have
LevelInputs == SeqToSet(LevelOrder) \cup {"", "staff"}

CallSeniorityFit ==
    \E c \in LevelInputs, d \in LevelInputs :
        Called("seniority_fit_score", <<c, d>>, seniority_fit_score(c, d))

\* the inputs of estimate_seniority: every year count up to MaxYears, and the
\* values on both sides of each threshold of h_approx and works_count
MaxYears == 11
HInputs == {0, 5, 6, 11, 12, 24, 25, 26}
WorksInputs == {0, 14, 15, 39, 40, 79, 80, 81}

CallEstimateSeniority ==
    \E ya \in 0..MaxYears, h \in HInputs, w \in WorksInputs :
        Called("estimate_seniority", <<ya, h, w>>, estimate_seniority(ya, h, w))

\* the inputs of normalized_score: values below, inside and above the range,
\* and ranges that are proper, empty and reversed
MaxValue == 6
MaxEdge == 4
ValueInputs == (0 - 1)..MaxValue

CallNormalizedScore ==
    \E v \in ValueInputs, lo \in 0..MaxEdge, hi \in 0..MaxEdge :
        Called("normalized_score", <<v, lo, hi>>, normalized_score(v, lo, hi))

\* The functions of ranking.py and utils.py and the computations of the
\* handlers, each called on its own with every input of the sets above.
NextFn ==
    \/ CallProgress
    \/ CallGetSearch
    \/ CallSeniorityFit
    \/ CallEstimateSeniority
    \/ CallNormalizedScore

SpecFn == Init /\ [][NextFn]_vars

\* ------------------------------------- the functions, one call per run
\* The first call of a run: fn with the arguments args, and what it returns.
CalledFirst(fn, args, value) ==
    /\ call = NoCall
    /\ Called(fn, args, value)

\* the arguments run_search can pass to score_candidate: keywords and topics
\* that meet fully, in part or not at all, values at, inside and beyond the
\* ends of each normalisation, and no dated publication (recent_year 0)
ScoreKeywords == {<<"quantum">>, <<"quantum", "computing">>}
ScoreTopics == {<<>>, <<"quantum", "error">>}
ScoreH == {0, 40, 100}
ScoreCitations == {0, 250, 600}
ScoreYears == {0, 2011, 2020, 2026}
ScoreSimilarity == {0, U \div 2, U}
ScoreSeniority == {(2 * U) \div 10, U}

CallScoreCandidate ==
    \E qk \in ScoreKeywords, tp \in ScoreTopics, h \in ScoreH, bc \in ScoreCitations :
      \E ry \in ScoreYears, es \in ScoreSimilarity, sf \in ScoreSeniority :
        CalledFirst("score_candidate", <<qk, tp, h, bc, ry, es, sf>>,
                    score_candidate(qk, tp, h, bc, ry, now_year, es, sf))

\* keyword lists of up to MaxKeywords words, with repeats and with the two
\* spellings of one word
MaxKeywords == 2
KeywordWords == {"Quantum", "quantum", "planning"}
KeywordLists == UNION {[1..n -> KeywordWords] : n \in 0..MaxKeywords}

CallTopicalFit ==
    \E qk \in KeywordLists, tp \in KeywordLists :
        CalledFirst("topical_fit", <<qk, tp>>, topical_fit(qk, tp))

\* texts of up to MaxTokens tokens; at dimension 10 "quantum" and "planning"
\* fall on one index with opposite signs
MaxTokens == 2
TextTokens == {"quantum", "planning", "computing"}
Texts == UNION {[1..n -> TextTokens] : n \in 0..MaxTokens}

\* SimpleEmbedder(dim).embed(text)
CallEmbed ==
    \E text \in Texts, dim \in EmbedDims :
        CalledFirst("embed", <<text, dim>>, embed(text, dim))

\* the vectors of the texts, at every dimension of the model
Vectors == {embed(text, dim) : text \in Texts, dim \in EmbedDims}

CallCosine ==
    \E a \in Vectors, b \in Vectors :
        CalledFirst("cosine_similarity", <<a, b>>, cosine_outcome(a, b))

\* ------------------------------------------------------ rag.query_tweets
\* dot(row, q_vec) of two stored-as-normalised vectors, in units of 1/U (to
\* 1/1000): the dot product of the counts over the two norms
dot(a, b) ==
    LET d == Dot(a.num, b.num)
    IN Sign(d) * Isqrt((d * d * 10^6) \div (a.den2 * b.den2)) * (U \div 1000)

RECURSIVE TopIdx(_, _, _)
\* sorted(range(len(sims)), key=lambda i: -sims[i]): the sort is stable, so
\* rows of equal similarity keep the order of the list; k is the number of
\* indices still to place
TopIdx(sims, taken, k) ==
    IF k <= 0 \/ taken = DOMAIN sims THEN <<>>
    ELSE LET best == CHOOSE i \in DOMAIN sims \ taken :
                        \A j \in DOMAIN sims \ taken :
                            sims[j] < sims[i] \/ (sims[j] = sims[i] /\ j >= i)
         IN <<best>> \o TopIdx(sims, taken \cup {best}, k - 1)

\* s[:k]: the first k elements, all of them when k exceeds the length, and
\* all but the last -k when k is negative
SliceTo(s, k) ==
    IF k >= 0 THEN SubSeq(s, 1, Min(k, Len(s)))
    ELSE SubSeq(s, 1, Max(0, Len(s) + k))

\* query_tweets(candidate_id, query, k) over the tweets of the candidate,
\* given by their texts in the order the rows are loaded; the i-th has the
\* post id i.  Both the rows and the query are embedded with dimension dim.
query_tweets(tweets, query, k, dim) ==
    LET q_vec == embed(query, dim)
        mat == [i \in 1..Len(tweets) |-> embed(tweets[i], dim)]
        sims == [i \in 1..Len(mat) |-> dot(mat[i], q_vec)]
    IN IF mat = <<>> THEN <<>> ELSE SliceTo(TopIdx(sims, {}, Len(sims)), k)

\* up to MaxItems stored tweets; the handlers pass int(payload.get("k", 8))
\* as it comes, so the limit is any integer: here from MinK to MaxK
MaxItems == 3
MinK == -2
MaxK == 4
TweetTexts == {<<"quantum">>, <<"quantum", "computing">>, <<"planning">>}
TweetLists == UNION {[1..n -> TweetTexts] : n \in 0..MaxItems}
Queries == {<<"quantum">>, <<"computing">>}

CallQueryTweets ==
    \E tweets \in TweetLists, query \in Queries, k \in MinK..MaxK :
        CalledFirst("query_tweets", <<tweets, query, k>>,
                    query_tweets(tweets, query, k, embed_dim))

\* ---------------------------------------- get_candidate: career segments
\* the i-th smallest element of a set of integers
NthOf(S, i) ==
    CHOOSE x \in S : Cardinality({y \in S : y < x}) = i - 1

\* a compression that closes a segment only when the organization changes
segments_by_org(rows) ==
    LET starts == {i \in 1..Len(rows) : i = 1 \/ rows[i].org_name # rows[i - 1].org_name}
        last(k) == IF k = Cardinality(starts) THEN Len(rows) ELSE NthOf(starts, k + 1) - 1
    IN [k \in 1..Cardinality(starts) |->
           [org |-> rows[NthOf(starts, k)].org_name,
            start_year |-> rows[NthOf(starts, k)].year,
            end_year |-> rows[last(k)].year]]

\* the locals of the loop before the first row: cur_org is None
NoSegment == [open |-> FALSE, cur_org |-> "", start |-> 0, prev_year |-> 0]

RECURSIVE SegmentLoop(_, _, _, _)
\* the for loop over rows from the i-th on, with the locals in cur and the
\* list built so far, and the append after the loop
SegmentLoop(rows, i, cur, segs) ==
    IF i > Len(rows)
    THEN IF cur.open
         THEN Append(segs, [org |-> cur.cur_org, start_year |-> cur.start,
                            end_year |-> cur.prev_year])
         ELSE segs
    ELSE LET org_name == rows[i].org_name
             year == rows[i].year
         IN IF ~cur.open
            THEN SegmentLoop(rows, i + 1,
                     [open |-> TRUE, cur_org |-> org_name, start |-> year,
                      prev_year |-> year], segs)
            ELSE IF org_name # cur.cur_org \/ year > cur.prev_year + 1
            THEN SegmentLoop(rows, i + 1,
                     [open |-> TRUE, cur_org |-> org_name, start |-> year,
                      prev_year |-> year],
                     Append(segs, [org |-> cur.cur_org, start_year |-> cur.start,
                                   end_year |-> cur.prev_year]))
            ELSE SegmentLoop(rows, i + 1, [cur EXCEPT !.prev_year = year], segs)

\* the segments get_candidate builds from the rows of the candidate
segments(rows) ==
    IF rows = <<>> THEN <<>> ELSE SegmentLoop(rows, 1, NoSegment, <<>>)

\* up to MaxSegmentRows rows of the candidate, as ORDER BY year ASC returns
\* them: the years never decrease
MaxSegmentRows == 4
SegmentOrgs == {"MIT", "CMU"}
SegmentYears == 2018..2021
SegmentRows == [org_name : SegmentOrgs, year : SegmentYears]
RowLists ==
    UNION {{r \in [1..n -> SegmentRows] :
               \A i \in 2..n : r[i - 1].year <= r[i].year} : n \in 0..MaxSegmentRows}

CallSegments ==
    \E rows \in RowLists :
        CalledFirst("segments", <<rows>>, segments(rows))

\* Each run makes one call of one of the functions, with inputs of the sets
\* above.
NextCalls ==
    \/ CallTopicalFit
    \/ CallEmbed
    \/ CallCosine
    \/ CallQueryTweets
    \/ CallSegments
    \/ CallScoreCandidate

SpecCalls == Init /\ [][NextCalls]_vars

\* ------------------------------------------------------------ the claims
\* the events published so far for job j
Published(j) == published[j]

OfType(q, type) == SelectSeq(q, LAMBDA e : e.type = type)

Faults(j) == SeqToSet(fault[j])

\* discovery has returned for job j, with no authors
DiscoveredNone(j) ==
    /\ pc[j] \in {"finish", "emit_finished", "handler", "emit_error", "done", "dead"}
    /\ authors[j] = <<>>
    /\ "discovery" \notin Faults(j)

\* the rows of the candidates that the run of job j committed
CandidatesOf(j) == {c \in candidate : c.id[1] = j}
HasSummary(c) == \E a \in analysis_summary : a.candidate_id = c.id

NonDecreasing(q) == \A a, b \in 1..Len(q) : a < b => q[a].progress <= q[b].progress

\* C1: the persisted status of a job changes only PENDING -> RUNNING,
\* RUNNING -> DONE and RUNNING -> ERROR; DONE and ERROR are never left, not
\* even by the exception handler.
C1_StatusTransitions ==
    [][\A j \in JobIds :
          (Exists(j) /\ job'[j].status # job[j].status)
              => <<job[j].status, job'[j].status>> \in
                    {<<PENDING, RUNNING>>, <<RUNNING, DONE>>, <<RUNNING, ERROR>>}]_vars

C1_Witness ==
    \E j, k \in JobIds :
        /\ job[j].status = ERROR /\ pc[j] = "done"
        /\ job[k].status = DONE /\ pc[k] = "done"

\* C2: when discovery returns no authors (and the store raises nothing), the
\* job ends DONE with progress 100, with exactly one "finished" event and no
\* "error" event; no "candidate" event is ever published for it.
C2_EmptyDiscovery ==
    \A j \in JobIds :
        DiscoveredNone(j) =>
            /\ OfType(Published(j), "candidate") = <<>>
            /\ CandidatesOf(j) = {}
            /\ Len(OfType(Published(j), "finished")) <= 1
            /\ fault[j] = <<>> => OfType(Published(j), "error") = <<>>
            /\ (pc[j] = "done" /\ fault[j] = <<>>) =>
                  /\ job[j].status = DONE
                  /\ job[j].progress = 100
                  /\ Len(OfType(Published(j), "finished")) = 1

C2_Witness ==
    \E j \in JobIds : DiscoveredNone(j) /\ pc[j] = "done" /\ fault[j] = <<>>

\* C3: with n >= 1 authors discovered and nothing failing, exactly n
\* "candidate" events are published, the i-th for the i-th author discovered;
\* the final status is DONE with progress 100; and the progress of a job,
\* persisted and emitted, never decreases.
C3_Final ==
    \A j \in JobIds :
        /\ NonDecreasing(OfType(Published(j), "progress"))
        /\ \A e \in SeqToSet(OfType(Published(j), "progress")) :
              e.progress <= job[j].progress
        /\ (pc[j] = "done" /\ fault[j] = <<>> /\ authors[j] # <<>>) =>
              LET ce == OfType(Published(j), "candidate")
              IN /\ Len(ce) = Len(authors[j])
                 /\ \A i \in 1..Len(ce) :
                       \E c \in candidate :
                          c.id = ce[i].candidate /\ c.openalex_id = authors[j][i]
                 /\ job[j].status = DONE
                 /\ job[j].progress = 100
                 /\ OfType(Published(j), "error") = <<>>

EnrichmentFailed(j) ==
    /\ pc[j] = "done"
    /\ Len(fault[j]) = 1
    /\ fault[j][1] \in {"enrich", "persist_candidate", "persist_rest"}

\* C4: when the enrichment of the k-th author fails, the job ends in ERROR
\* with a non-empty error message, k-1 "candidate" events have been published
\* and the Candidate rows of those k-1 authors are stored.
C4_EnrichmentFailure ==
    \A j \in JobIds :
        EnrichmentFailed(j) =>
            /\ job[j].status = ERROR
            /\ job[j].error # <<>> /\ job[j].error[1] # ""
            /\ Len(OfType(Published(j), "candidate")) = step[j]
            /\ \A i \in 1..step[j] :
                  \E c \in candidate :
                     c.id = <<j, i>> /\ c.openalex_id = authors[j][i] /\ HasSummary(c)

\* C5: the status response of a job that ended in ERROR lists the candidates
\* the job persisted before the failure.
C5_ErrorJobListsPartials ==
    \A j \in JobIds :
        (Exists(j) /\ job[j].status = ERROR) =>
            \A r \in get_search(j) :
                \A c \in CandidatesOf(j) :
                    HasSummary(c) =>
                        \E i \in 1..Len(r.results) : r.results[i].candidate_id = c.id

\* C6: every stored Candidate of a run that is not in the middle of
\* persisting it has its AnalysisSummary stored too.
C6_PersistedAsOneUnit ==
    \A c \in candidate :
        pc[c.id[1]] # "persist_rest" => HasSummary(c)

\* C7: every stored total_score lies in [0, 1].
C7_ScoreInUnitInterval ==
    \A a \in analysis_summary : 0 <= a.total_score /\ a.total_score <= U

\* the works fetched for the candidate with id cid that count for (y, o)
Observations(cid, y, o) ==
    LET w == Works(authors[cid[1]][cid[2]])
    IN {k \in 1..Len(w) : w[k].has_year /\ w[k].year = y /\ w[k].org_at_publication = o}

\* C8: at most one AffiliationYear row per (candidate, year, organization),
\* its evidence_count the number of the candidate's fetched works with that
\* year and organization.
C8_OneRowPerTriple ==
    /\ \A r, q \in affiliationyear :
          (r.candidate_id = q.candidate_id /\ r.year = q.year /\ r.org_name = q.org_name)
              => r = q
    /\ \A r \in affiliationyear :
          r.evidence_count = Cardinality(Observations(r.candidate_id, r.year, r.org_name))

\* the events the streams attached to job j have forwarded, in the order
\* they were forwarded
Delivered(j) ==
    LET d == SelectSeq(frames, LAMBDA f : f.kind = "message" /\ sub[f.sub] = j)
    IN [i \in 1..Len(d) |-> d[i].data[1]]

QueueOf(j) == IF j \in DOMAIN queues THEN queues[j] ELSE <<>>

\* C9: per job, the events forwarded so far, over all the streams attached
\* to the job's queue and in the order they were forwarded, followed by the
\* events still queued, are the events published, in publication order: FIFO,
\* nothing lost, nothing forwarded twice.
C9_FifoExactlyOnce ==
    \A j \in JobIds : Delivered(j) \o QueueOf(j) = published[j]

C9_Witness ==
    /\ pc[1] = "done"
    /\ QueueOf(1) = <<>>
    /\ \A s \in Subscribers :
          \E i \in 1..Len(frames) : frames[i].sub = s /\ frames[i].kind = "message"

\* the events stream s has forwarded, in order
ForwardedTo(s) ==
    LET d == SelectSeq(FramesOf(s), LAMBDA f : f.kind = "message")
    IN [i \in 1..Len(d) |-> d[i].data[1]]

C10_State ==
    \A s \in Subscribers :
        /\ ~Open(s) => FramesOf(s) = <<>>
        /\ Open(s) =>
              /\ FramesOf(s) # <<>> /\ FramesOf(s)[1] = PingFrame(s)
              /\ idle[s] <= IdleWindow
              /\ Len(ForwardedTo(s)) <= Len(published[sub[s]])
              /\ ForwardedTo(s) = SubSeq(published[sub[s]], 1, Len(ForwardedTo(s)))

C10_Step ==
    \A s \in Subscribers :
        Open(s) =>
            /\ sub'[s] = sub[s]
            /\ Len(KeepAlivesOf(s))' > Len(KeepAlivesOf(s)) =>
                  idle[s] = IdleWindow /\ idle'[s] = 0

C10_Expired(s) ==
    Open(s) /\ idle[s] = IdleWindow /\ Len(KeepAlivesOf(s)) <= MaxKeepAlives

\* C10: a stream yields a keep-alive first; it forwards the events of its
\* job as published; it yields a further keep-alive only when its wait has
\* lasted the 60-unit window, and then it does yield a frame; and once open
\* it stays open, also after a "finished" or "error" event.
C10_Subscription ==
    /\ []C10_State
    /\ [][C10_Step]_vars
    /\ \A s \in Subscribers : C10_Expired(s) ~> (idle[s] = 0)

C10_Witness ==
    \E s \in Subscribers :
        LET o == FramesOf(s)
        IN \E a, b \in 1..Len(o) :
              /\ a < b
              /\ o[a].kind = "message"
              /\ o[a].data[1].type \in {"finished", "error"}
              /\ o[b].kind = "ping"

\* ------------------------------------------------------------------- C11
\* the response of get_search for a job id that has no row
NotFound == [code |-> 404, status |-> "", progress |-> 0, results |-> <<>>]

\* C11: an operation on an absent job id surfaces NotFound and mutates no
\* state: while job j has no row, getJobStatus answers NotFound, the registry
\* of queues has no entry for j and no event stream is attached to j.
C11_AbsentJobUntouched ==
    \A j \in JobIds :
        ~Exists(j) =>
            /\ get_search(j) = {NotFound}
            /\ j \notin DOMAIN queues
            /\ \A s \in Subscribers : sub[s] # j

\* ------------------------------------------------------------------- C13
\* fetch_top_works for the (k+1)-th author of job j is in flight
FetchInFlight(j, k) == pc[j] = "fetch" /\ step[j] = k

\* the authors of job j whose pass has begun and is not yet complete
InFlight(j) ==
    IF pc[j] \in {"fetch", "persist_candidate", "persist_rest", "emit_candidate",
                  "progress"}
    THEN {step[j] + 1}
    ELSE {}

\* C13: within one job the authors are processed one after the other in
\* discovery order: while the work-fetch call for author k+1 is in flight, the
\* authors 1..k (and only they) are persisted with their summary, their
\* "candidate" events are published in discovery order and k "progress"
\* events follow the initial one; at most one author of a job is in flight.
C13_Sequential ==
    \A j \in JobIds :
        /\ Cardinality(InFlight(j)) <= 1
        /\ \A k \in 0..NumAuthors :
              FetchInFlight(j, k) =>
                 /\ k < Len(authors[j])
                 /\ CandidatesOf(j) =
                       {[id |-> <<j, i>>, openalex_id |-> authors[j][i]] : i \in 1..k}
                 /\ \A c \in CandidatesOf(j) : HasSummary(c)
                 /\ OfType(Published(j), "candidate") =
                       [i \in 1..k |-> Event("candidate", 0, <<j, i>>, "")]
                 /\ Len(OfType(Published(j), "progress")) = k + 1
                 /\ Published(j)[Len(Published(j))].type = "progress"

\* both jobs wait for the works of their second author
C13_Witness ==
    /\ FetchInFlight(1, 1)
    /\ FetchInFlight(2, 1)

\* ------------------------------------------------------------------- C14
\* a failure was raised inside the try of run_search(j): by discovery, by the
\* enrichment of a candidate or by one of the commits of the loop
Failed(j) == fault[j] # <<>> /\ fault[j][1] # "start"

\* the except clause of run_search(j) has run to its end
Handled(j) == Failed(j) /\ pc[j] = "done"

C15_ReachesTerminal ==
    \A j \in JobIds :
        Exists(j) ~> (job[j].status \in {DONE, ERROR})

\* ------------------------------------------------------------------- C16
\* the step is one of the task that runs job j
StepOfTask(j) == pc'[j] # pc[j] /\ \A k \in JobIds \ {j} : pc'[k] = pc[k]

\* C16: with jobs running concurrently, the queue of job j holds exactly the
\* events the task of job j has published, in order, and the candidates it
\* names are those of job j; the queue of job j grows only in a step of the
\* task of job j, by the one event that step publishes, and no other queue
\* changes in that step.
C16_OneProducer ==
    /\ [](\A j \in JobIds :
            /\ QueueOf(j) = Published(j)
            /\ \A i \in 1..Len(QueueOf(j)) :
                  QueueOf(j)[i].type = "candidate" =>
                      \E c \in CandidatesOf(j) : c.id = QueueOf(j)[i].candidate)
    /\ [][\A j \in JobIds :
            (j \in DOMAIN queues' /\ queues'[j] # QueueOf(j)) =>
                /\ StepOfTask(j)
                /\ queues'[j] = Append(QueueOf(j), Published(j)'[Len(Published(j)')])
                /\ \A k \in JobIds \ {j} :
                      k \in DOMAIN queues' => queues'[k] = QueueOf(k)]_vars

\* both jobs are half-way, each with a candidate event in its queue: job 1
\* waits for works while the task of job 2 persists its second candidate
C16_Witness ==
    /\ pc[1] = "fetch"
    /\ pc[2] = "persist_rest"
    /\ \A j \in JobIds :
          /\ step[j] = 1
          /\ Len(OfType(QueueOf(j), "candidate")) = 1

\* ------------------------------------------------------------------- C12
\* the call is one of fn
IsCall(fn) == call.fn = fn

\* C12: after the i-th of n candidates the progress is
\* 5 + 90*i/n rounded down to an integer, and it lies within [0, 100].
C12_ProgressRoundedDown ==
    IsCall("progress") =>
        LET i == call.args[1]
            n == call.args[2]
        IN /\ ret \in 0..100
           /\ ret * n <= 5 * n + 90 * i
           /\ 5 * n + 90 * i < (ret + 1) * n

\* C12 as the specification states it: the progress is 5 + 90*i/n rounded to the nearest integer
\* (either neighbour when it lies half-way), and it lies within [0, 100].
C12_ProgressNearest ==
    IsCall("progress") =>
        LET i == call.args[1]
            n == call.args[2]
        IN /\ ret \in 0..100
           /\ 2 * Abs(ret * n - (5 * n + 90 * i)) <= n

\* the first of seven candidates: 5 + 90/7 = 17.857..., and the progress is 17
C12_Witness ==
    /\ IsCall("progress")
    /\ call.args = <<1, 7>>
    /\ ret = 17

Recognised == {"junior", "mid", "senior", "principal"}

\* junior < mid < senior < principal
Ordinal(l) ==
    CASE l = "junior" -> 0 [] l = "mid" -> 1 [] l = "senior" -> 2 [] l = "principal" -> 3

\* 1.0, 0.8, 0.5, 0.2 for the ordinal distances 0, 1, 2, 3
FitAtDistance(d) ==
    CASE d = 0 -> U [] d = 1 -> (8 * U) \div 10 [] d = 2 -> (5 * U) \div 10
      [] d = 3 -> (2 * U) \div 10

\* what C18 says of two recognised levels, of an unset desired level and of
\* an unrecognised level
FitValues(c, d, value) ==
    /\ (c \in Recognised /\ d \in Recognised) =>
          value = FitAtDistance(Abs(Ordinal(c) - Ordinal(d)))
    /\ d = "" => value = U
    /\ (d # "" /\ (c \notin Recognised \/ d \notin Recognised)) =>
          value = (8 * U) \div 10

\* C18: fit(L, L) = 1.0 for every recognised level L;
\* fit(A, B) = fit(B, A) whenever both levels are set; for recognised levels
\* the value is 1.0, 0.8, 0.5, 0.2 for ordinal distance 0, 1, 2, 3; it is 1.0
\* when the desired level is unset, whatever the candidate's level; and it is
\* 0.8 when the desired level is set and either level is unrecognised.
C18_FitRecognised ==
    IsCall("seniority_fit_score") =>
        LET c == call.args[1]
            d == call.args[2]
        IN /\ FitValues(c, d, ret)
           /\ (c = d /\ c \in Recognised) => ret = U
           /\ (c # "" /\ d # "") => ret = seniority_fit_score(d, c)

\* C18 as the specification states it: fit(L, L) = 1.0 for every level L and fit(A, B) = fit(B, A)
\* for all levels A, B, with the same values.
C18_FitEveryLevel ==
    IsCall("seniority_fit_score") =>
        LET c == call.args[1]
            d == call.args[2]
        IN /\ FitValues(c, d, ret)
           /\ c = d => ret = U
           /\ ret = seniority_fit_score(d, c)

\* an unrecognised level against itself fits 0.8
C18_Witness ==
    /\ IsCall("seniority_fit_score")
    /\ call.args = <<"staff", "staff">>
    /\ ret = (8 * U) \div 10

\* ------------------------------------------------------------------- C19
\* the classification as C19 states it
ClassifyAsStated(years_active, h_proxy, works_count) ==
    IF years_active >= 10 \/ h_proxy >= 25 \/ works_count >= 80 THEN "principal"
    ELSE IF years_active >= 6 \/ h_proxy >= 12 \/ works_count >= 40 THEN "senior"
    ELSE IF years_active >= 3 \/ h_proxy >= 6 \/ works_count >= 15 THEN "mid"
    ELSE "junior"

\* C19: classify returns principal if years_active >= 10 or h_proxy >= 25 or
\* works_count >= 80; otherwise senior if years_active >= 6 or h_proxy >= 12
\* or works_count >= 40; otherwise mid if years_active >= 3 or h_proxy >= 6
\* or works_count >= 15; otherwise junior.  Raising an input never lowers the
\* level returned.
C19_Classify ==
    IsCall("estimate_seniority") =>
        LET ya == call.args[1]
            h == call.args[2]
            w == call.args[3]
        IN /\ ret = ClassifyAsStated(ya, h, w)
           /\ \A ya2 \in 0..MaxYears, h2 \in HInputs, w2 \in WorksInputs :
                 (ya2 >= ya /\ h2 >= h /\ w2 >= w) =>
                     Ordinal(estimate_seniority(ya2, h2, w2)) >= Ordinal(ret)

\* two years active and few works, and an h_approx of 12 alone makes a senior
C19_Witness ==
    /\ IsCall("estimate_seniority")
    /\ call.args = <<2, 12, 14>>
    /\ ret = "senior"

\* ------------------------------------------------------------------- C20
\* C20: normalize(v, lo, hi) returns 0 when hi <= lo; otherwise it returns
\* (clamp(v, lo, hi) - lo) / (hi - lo) (here in millionths, rounded down),
\* which lies in [0, 1], is 0 for v <= lo and 1 for v >= hi, and does not
\* decrease when v grows.
C20_Normalize ==
    IsCall("normalized_score") =>
        LET v == call.args[1]
            lo == call.args[2]
            hi == call.args[3]
            clamped == IF v < lo THEN lo ELSE IF v > hi THEN hi ELSE v
        IN /\ hi <= lo => ret = 0
           /\ hi > lo =>
                 /\ ret * (hi - lo) <= (clamped - lo) * U
                 /\ (clamped - lo) * U < (ret + 1) * (hi - lo)
                 /\ ret \in 0..U
                 /\ v <= lo => ret = 0
                 /\ v >= hi => ret = U
           /\ \A v2 \in ValueInputs :
                 v2 >= v => normalized_score(v2, lo, hi) >= ret

\* a value half-way through a proper range
C20_Witness ==
    /\ IsCall("normalized_score")
    /\ call.args = <<2, 1, 3>>
    /\ ret = U \div 2

\* ------------------------------------------------------------------- C26
Terminal == {"finished", "error"}

\* q starts with the "progress" event of value 1, and every event of q is one
\* that may follow its predecessor: follows[t] are the types that may come
\* right after an event of type t
Shaped(q, follows) ==
    /\ q # <<>> => q[1] = Event("progress", 1, <<>>, "")
    /\ \A i \in 1..(Len(q) - 1) : q[i + 1].type \in follows[q[i].type]

\* a "candidate" is followed by its "progress" or, when the commit of that
\* progress fails, by the "error"; nothing follows a terminal event
FollowsInCode ==
    [t \in {"progress", "candidate", "finished", "error"} |->
        CASE t = "progress" -> {"candidate", "finished", "error"}
          [] t = "candidate" -> {"progress", "error"}
          [] OTHER -> {}]

\* a "candidate" is always followed by its "progress"
FollowsInPairs ==
    [t \in {"progress", "candidate", "finished", "error"} |->
        CASE t = "progress" -> {"candidate", "finished", "error"}
          [] t = "candidate" -> {"progress"}
          [] OTHER -> {}]

\* the run of job j has ended with its last emit
Ended(j) == pc[j] = "done"

Committed(j, e) ==
    CASE e.type = "candidate" ->
            \E c \in CandidatesOf(j) : c.id = e.candidate /\ HasSummary(c)
      [] e.type = "progress" -> job[j].progress >= e.progress
      [] e.type = "finished" -> job[j].status = DONE /\ job[j].progress = 100
      [] e.type = "error" -> job[j].status = ERROR

\* C27: state is committed before the event that reports it is published:
\* for every event a subscriber has received (and every event still queued),
\* the Candidate of a "candidate" event is stored with its AnalysisSummary,
\* the stored progress is at least the p of a "progress" event, the job is
\* DONE with progress 100 for "finished" and ERROR for "error".
C27_CommittedBeforePublished ==
    \A j \in JobIds :
        /\ \A i \in 1..Len(Delivered(j)) : Committed(j, Delivered(j)[i])
        /\ \A i \in 1..Len(QueueOf(j)) : Committed(j, QueueOf(j)[i])

\* the two streams have between them received a whole run: a candidate, its
\* progress and the finish
C27_Witness ==
    /\ Len(OfType(Delivered(1), "candidate")) >= 1
    /\ Len(OfType(Delivered(1), "progress")) >= 2
    /\ Len(OfType(Delivered(1), "finished")) = 1
    /\ \E s, t \in Subscribers : s # t /\ Len(FramesOf(s)) > 1 /\ Len(FramesOf(t)) > 1

Attached(j) == {s \in Subscribers : sub[s] = j}

\* the k-th data frame yielded by any stream of job j, in the order of yield
MessagesOf(j) == SelectSeq(frames, LAMBDA f : f.kind = "message" /\ sub[f.sub] = j)

\* C29: there is one queue per job id, created by the first publish or
\* subscribe and kept from then on; while no subscriber is attached the queue
\* holds every event published, in order; the streams of a job together are
\* handed the published events in publication order, each once, so a stream
\* is never handed an event that was taken before it attached; and attaching
\* leaves the content of the queue as it is (nothing is replayed).
C29_LazyQueueNoReplay ==
    /\ [](\A j \in JobIds :
            /\ j \in DOMAIN queues <=> (Published(j) # <<>> \/ Attached(j) # {})
            /\ Attached(j) = {} => QueueOf(j) = Published(j)
            /\ Len(MessagesOf(j)) + Len(QueueOf(j)) = Len(Published(j))
            /\ \A k \in 1..Len(MessagesOf(j)) :
                  MessagesOf(j)[k].data = <<Published(j)[k]>>
            /\ \A k \in 1..Len(QueueOf(j)) :
                  QueueOf(j)[k] = Published(j)[Len(MessagesOf(j)) + k])
    /\ [][\A j \in JobIds :
            /\ j \in DOMAIN queues => j \in DOMAIN queues'
            /\ Attached(j)' # Attached(j) =>
                  /\ Attached(j) \subseteq Attached(j)'
                  /\ queues'[j] = QueueOf(j)]_vars

\* stream 1 took the early events, stream 2 attached later and was handed a
\* later one
C29_Witness ==
    \E a, b, c \in 1..Len(frames) :
        /\ a < b /\ b < c
        /\ frames[a].kind = "message" /\ frames[a].sub = 1
        /\ frames[b] = PingFrame(2)
        /\ frames[c].kind = "message" /\ frames[c].sub = 2
        /\ Len(FramesOf(2)) = 2

\* ------------------------------------------------------------------- C30
\* the step is the except clause of run_search(j)
HandlerStep(j) == pc[j] = "handler" /\ pc'[j] # "handler"

\* the four tables of what a run finds
Rows == <<candidate, publication, affiliationyear, analysis_summary>>

LastOf(q) == q[Len(q)]

\* C30: the failure handler of a job changes only that job's status and
\* error message: its progress keeps the last value written before the
\* failure (the value of the last "progress" event, never 100), the other
\* jobs are left alone, and no Candidate, Publication, AffiliationYear or
\* AnalysisSummary row is modified or deleted.  A run only inserts Candidate
\* rows, under new ids, and never changes or removes an existing one.
C30_HandlerFrame ==
    /\ [][\A j \in JobIds :
            HandlerStep(j) =>
                /\ job' = [job EXCEPT ![j].status = job'[j].status,
                                      ![j].error = job'[j].error]
                /\ Rows' = Rows]_vars
    /\ [][/\ candidate \subseteq candidate'
          /\ \A c \in candidate' \ candidate : \A d \in candidate : d.id # c.id]_vars
    /\ [](\A j \in JobIds :
            Handled(j) =>
                /\ job[j].progress = LastOf(OfType(Published(j), "progress")).progress
                /\ job[j].progress < 100)

\* the handler has run after one of two candidates was done: the progress
\* stays 50 and the candidate stays stored
C30_Witness ==
    \E j \in JobIds :
        /\ Handled(j)
        /\ job[j].status = ERROR
        /\ job[j].progress = 50
        /\ \E c \in CandidatesOf(j) : HasSummary(c)

\* ------------------------------------------------------------------- C21
\* C21: score_candidate returns total_score = 0.45*composite_fit +
\* 0.30*impact + 0.15*recency + 0.10*seniority_fit, with composite_fit =
\* 0.5*topical_fit + 0.5*embedding_similarity, impact =
\* 0.7*normalize(best_citations, 0, 500) + 0.3*normalize(h_proxy, 0, 80) and
\* recency = 0 when there is no dated publication (otherwise the year
\* normalised over the last 15 years); the breakdown holds every one of these
\* terms, so that the total is recomputed from the breakdown alone.  (Values
\* in millionths, each quotient rounded down.)
C21_ScoreFormula ==
    IsCall("score_candidate") =>
        LET qk == call.args[1]
            tp == call.args[2]
            h == call.args[3]
            bc == call.args[4]
            ry == call.args[5]
            es == call.args[6]
            sf == call.args[7]
            b == ret.breakdown
        IN /\ b.fit_keywords = topical_fit(qk, tp)
           /\ b.fit_embed = es
           /\ b.topical_fit = (5 * b.fit_keywords + 5 * b.fit_embed) \div 10
           /\ b.impact = (7 * normalized_score(bc, 0, 500)
                          + 3 * normalized_score(h, 0, 80)) \div 10
           /\ ry = 0 => b.recency = 0
           /\ ry # 0 => b.recency = normalized_score(ry, now_year - 15, now_year)
           /\ b.seniority_fit = sf
           /\ ret.total = (45 * b.topical_fit + 30 * b.impact + 15 * b.recency
                           + 10 * b.seniority_fit) \div 100
           /\ 45 + 30 + 15 + 10 = 100

\* half the keywords met, citations and h half-way, no dated publication:
\* fit 0.25, impact 0.5, recency 0, seniority fit 1 give 0.3625
C21_Witness ==
    /\ IsCall("score_candidate")
    /\ call.args = <<<<"quantum", "computing">>, <<"quantum", "error">>, 40, 250, 0, 0, U>>
    /\ ret.breakdown.recency = 0
    /\ ret.total = 362500

\* ------------------------------------------------------------------- C22
\* the keywords of a list, lowercased
Lowered(ks) == {Lower(ks[i]) : i \in 1..Len(ks)}

\* C22: topical_fit(query_keywords, candidate_topics) is the size of the
\* lowercased intersection divided by max(1, the number of distinct
\* lowercased query keywords) (in millionths, rounded down), for all lists,
\* with repeats and differing case, and it always lies in [0, 1].
C22_TopicalFitDistinct ==
    IsCall("topical_fit") =>
        LET q == Lowered(call.args[1])
            c == Lowered(call.args[2])
        IN /\ ret = (Cardinality(q \cap c) * U) \div Max(1, Cardinality(q))
           /\ ret \in 0..U

\* C22 as the specification states it: the size of the lowercased
\* intersection divided by max(1, |query_keywords|), the length of the list.
C22_TopicalFitByLength ==
    IsCall("topical_fit") =>
        LET q == Lowered(call.args[1])
            c == Lowered(call.args[2])
        IN /\ ret = (Cardinality(q \cap c) * U) \div Max(1, Len(call.args[1]))
           /\ ret \in 0..U

\* one keyword in two spellings, met by the topics: the fit is 1, not 1/2
C22_Witness ==
    /\ IsCall("topical_fit")
    /\ call.args = <<<<"Quantum", "quantum">>, <<"quantum">>>>
    /\ ret = U

\* ------------------------------------------------------------------- C23
\* every entry of v is 0
IsZero(v) == \A i \in DOMAIN v.num : v.num[i] = 0

\* the square of the L2 norm of v is 1
UnitNorm(v) == Dot(v.num, v.num) = v.den2

\* C23: embed("") is the zero vector of the declared dimension; embed gives
\* one result per text and dimension, and every result is the zero vector or
\* has unit L2 norm; for two vectors of one length cosine(zero, x) = 0.0 and
\* cosine(a, a) = 1.0 for nonzero a; and cosine raises a dimension-mismatch
\* error, and returns no number, whenever the two vectors differ in length.
C23_EmbedCosine ==
    /\ IsCall("embed") =>
          /\ ret.dim = call.args[2]
          /\ DOMAIN ret.num \subseteq 0..(ret.dim - 1)
          /\ call.args[1] = <<>> => IsZero(ret)
          /\ IsZero(ret) \/ UnitNorm(ret)
          /\ ret = embed(call.args[1], call.args[2])
    /\ IsCall("cosine_similarity") =>
          LET a == call.args[1]
              b == call.args[2]
          IN /\ a.dim # b.dim <=> ret.raised # ""
             /\ a.dim = b.dim =>
                   /\ (IsZero(a) \/ IsZero(b)) => ret.value = 0
                   /\ (a = b /\ ~IsZero(a)) => ret.value = U

\* at dimension 10 "quantum planning" cancels to the zero vector, and its
\* cosine with the vector of "computing" is 0
C23_Witness ==
    /\ IsCall("cosine_similarity")
    /\ call.args = <<embed(<<"quantum", "planning">>, 10), embed(<<"computing">>, 10)>>
    /\ IsZero(call.args[1])
    /\ ret = [raised |-> "", value |-> 0]

\* ------------------------------------------------------------------- C24
\* the cosine similarity of the i-th stored item to the query
SimilarityOf(tweets, query, i) ==
    cosine_similarity(embed(tweets[i], embed_dim), embed(query, embed_dim))

\* item i ranks before item j: higher similarity, or equal similarity and
\* inserted earlier
RanksBefore(tweets, query, i, j) ==
    \/ SimilarityOf(tweets, query, i) > SimilarityOf(tweets, query, j)
    \/ SimilarityOf(tweets, query, i) = SimilarityOf(tweets, query, j) /\ i < j

\* C24: retrieve over n stored items with limit k returns min(k, n) items,
\* never more than k: the k items of highest cosine similarity to the query
\* embedding, in similarity-descending order, items of equal similarity in
\* their insertion order.
C24_TopKStable ==
    IsCall("query_tweets") =>
        LET tweets == call.args[1]
            query == call.args[2]
            k == call.args[3]
            n == Len(tweets)
            chosen == {ret[a] : a \in 1..Len(ret)}
        IN /\ Len(ret) = Min(k, n)
           /\ Len(ret) <= k
           /\ chosen \subseteq 1..n
           /\ Cardinality(chosen) = Len(ret)
           /\ \A a, b \in 1..Len(ret) :
                 a < b => RanksBefore(tweets, query, ret[a], ret[b])
           /\ \A i \in (1..n) \ chosen :
                 \A a \in 1..Len(ret) : RanksBefore(tweets, query, ret[a], i)

\* ------------------------------------------------------------------- C25
\* the rows at which a segment starts: the first, every row whose
\* organization differs from the previous row's, every row whose year is
\* more than one after the previous row's
SegmentStarts(rows) ==
    {i \in 1..Len(rows) :
        \/ i = 1
        \/ rows[i].org_name # rows[i - 1].org_name
        \/ rows[i].year > rows[i - 1].year + 1}

\* the last row of the k-th segment: the one before the next start
SegmentEnd(rows, k) ==
    IF k = Cardinality(SegmentStarts(rows)) THEN Len(rows)
    ELSE NthOf(SegmentStarts(rows), k + 1) - 1

\* C25: the segments built from the year-sorted rows start exactly at the
\* first row, at a change of organization and at a year more than one after
\* the previous row's; the k-th segment covers the rows from its start to the
\* row before the next start, all of one organization, so every row is in
\* exactly one segment; its start_year and end_year are the years of its
\* first and last row, and start_year <= end_year.
C25_Segments ==
    IsCall("segments") =>
        LET rows == call.args[1]
            starts == SegmentStarts(rows)
        IN /\ Len(ret) = Cardinality(starts)
           /\ \A k \in 1..Len(ret) :
                 LET first == NthOf(starts, k)
                     last == SegmentEnd(rows, k)
                 IN /\ first <= last
                    /\ \A i \in first..last : rows[i].org_name = ret[k].org
                    /\ ret[k].start_year = rows[first].year
                    /\ ret[k].end_year = rows[last].year
                    /\ ret[k].start_year <= ret[k].end_year

\* a stay of two years, the same organization again after a gap, then
\* another organization in the same year: three segments
C25_Witness ==
    /\ IsCall("segments")
    /\ call.args[1] = <<[org_name |-> "MIT", year |-> 2018],
                        [org_name |-> "MIT", year |-> 2019],
                        [org_name |-> "MIT", year |-> 2021],
                        [org_name |-> "CMU", year |-> 2021]>>
    /\ ret = <<[org |-> "MIT", start_year |-> 2018, end_year |-> 2019],
               [org |-> "MIT", start_year |-> 2021, end_year |-> 2021],
               [org |-> "CMU", start_year |-> 2021, end_year |-> 2021]>>

====
